---- MODULE Spec2Model ----
(***************************************************************************)
(* Model of the optimization engine of mustard_estimator                   *)
(* (src/mustard/mustard.py): set_init and estimate, with the minimization  *)
(* loop, the regularization activation / deactivation schedule, the        *)
(* divergence checkpoint, the NaN guard and the KeyboardInterrupt path.    *)
(*                                                                         *)
(* Abstractions.  An iterate (the tensors Lk, Xk and the flux vectors) is  *)
(* identified by the estimate call that produced it ("this" call or an     *)
(* "earlier" one) and the number of optimizer.step calls completed in that *)
(* call; "partial" marks tensors that an interrupted optimizer.step left   *)
(* half updated.  A loss is an                                             *)
(* integer 1..MaxLoss or NaN.  A regularization weight is 0 or 1 (zero or  *)
(* non zero), a raw regularization value is its sign.  The test            *)
(* grad < gtol is a boolean chosen per iteration; it is false when the     *)
(* loss is NaN (the gradient of a NaN loss is NaN).                        *)
(*                                                                         *)
(* SpecSetup models the construction and configuration of the estimator    *)
(* (__init__, configR1, configR2, the kernel helpers of algo.py) and the   *)
(* variables estimate hands to the optimizer in each estimation mode       *)
(* (SpecTrain).  SpecFrame models the pixels: a frame is a row of three    *)
(* pixels whose middle one is the centre of rotation, a pixel of L or X is *)
(* -1, 0 or 1, and the loss terms and the returned frames are computed     *)
(* from them as the code computes them.  SpecCube models the science cube, *)
(* two frames of such pixels, through the calls of estimate.  SpecRotate   *)
(* and SpecScale model tensor_rotate_fft and tensor_fft_scale of algo.py   *)
(* on small frames of 0/1 pixels: the quarter turns, the crop and the      *)
(* zero padding are exact, a Fourier shear moves each line by its shift    *)
(* rounded to whole pixels, and a rescaling is followed by the dimensions  *)
(* of the array it returns.                                                *)
(***************************************************************************)
EXTENDS Integers, Sequences, FiniteSets, TLC

\* ------------------------------------------------------------------ bounds
MaxIter == 4
MaxLoss == 2
MaxFrames == 2
\* largest value of a pixel of the science cube
MaxPix == 2
\* largest side of a frame given to tensor_fft_scale
MaxDim == 12

\* ------------------------------------------------------- program constants
\* mink = 2 : min number of iterations before convergence
InitMink == 2
\* kactiv forced by the step-0 weight computation
ForcedKactiv == 2
\* the value torch.isnan recognises
NaN == -1

VARIABLES
    pc,           \* "idle" | "for" | "activation" | "after" | "done"
    L0x0,         \* self.L0x0 : "None" | "user" | "derived"
    L0,           \* local L0, X0 : where the start pair of the call came from
    last_iter,    \* self.last_iter
    final_estim,  \* self.final_estim
    candidate,    \* the snapshot line 744 stored during this call (observer)
    result,       \* the dict estimate builds and the pair it returns
    maxiter, kactiv, kdactiv, w_pcent, w_rp, w_r, w_r2,
    k, mink, Ractiv, ending, loss, loss_evo,
    Lk,           \* the live trainable tensors
    optimizer,    \* number of optim.LBFGS objects built in this call
    activ_step,   \* loop variable of activation()
    log           \* optimizer steps, weight computations, LBFGS
                  \* instantiations and captures of this call, in order

VARIABLES
    created,         \* a mustard_estimator object exists
    model_nb_frame,  \* self.model.nb_frame
    smooth,          \* the mode self.smooth was built for
    smoothL,         \* self.regul also sums self.smooth(L)
    regul2,          \* the lambda held by self.regul2
    mask,            \* self.mask : "1" | "Msk" | "1-Msk"
    config,          \* self.config[0] and self.config[1]
    call,            \* the last call made and its arguments
    raised,          \* the exception that call raised, or "none"
    tpc,             \* "idle" | "loop" : estimate is in its loop
    estimI,          \* estimI once capitalized
    params,          \* the variables given to the current optim.LBFGS
    rebuilt,         \* activation() has re-instantiated the optimizer
    tens             \* the values of Lk, Xk, flux_k, fluxR_k

VARIABLES
    fpc,             \* "none" | "loop" | "done"
    coro,            \* self.coro, the coronagraph mask
    Msk_px,          \* the tensor Msk given to configR2
    Lk_px, Xk_px,    \* the pixels of the tensors Lk and Xk
    out              \* what estimate returns and stores in res['x']

VARIABLES
    cube,            \* the array the caller gave to the constructor
    science_data,    \* self.science_data
    aliased,         \* self.science_data is the caller's array itself
    rot_angles       \* self.model.rot_angles, one angle per frame

VARIABLES
    fn,              \* the function of algo.py called, and how far it got
    tensor,          \* the frame given to tensor_rotate_fft
    angle,           \* the angle given to tensor_rotate_fft, in degrees
    rot,             \* what tensor_rotate_fft computed
    dim,             \* the side of the frame given to tensor_fft_scale
    scale,           \* its scale, a fraction <<numerator, denominator>>
    ori_dim,         \* its ori_dim
    scaled           \* the sides of the arrays returned so far

loopVars == <<pc, L0x0, L0, last_iter, final_estim, candidate, result,
              maxiter, kactiv, kdactiv, w_pcent, w_rp, w_r, w_r2,
              k, mink, Ractiv, ending, loss, loss_evo, Lk, optimizer,
              activ_step, log>>
configVars == <<created, model_nb_frame, smooth, smoothL, regul2, mask, config>>
setupVars == <<configVars, call, raised, tpc, estimI, params, rebuilt, tens>>
\* what the minimization loop of Spec leaves alone
frameVars == <<fpc, coro, Msk_px, Lk_px, Xk_px, out>>
cubeVars == <<cube, science_data, aliased, rot_angles>>
algoVars == <<fn, tensor, angle, rot, dim, scale, ori_dim, scaled>>
auxVars == <<setupVars, frameVars, cubeVars, algoVars>>
vars == <<loopVars, auxVars>>

\* ------------------------------------------------------------ value spaces
None == [call |-> "none", ver |-> 0, partial |-> FALSE]
NoResult == [ending |-> "none", x |-> None, loss_evo |-> <<>>, Kactiv |-> 0]
\* the option "converg" of kactiv and kdactiv
Converg == MaxIter + 1
FiniteLoss == 1..MaxLoss
LossVals == FiniteLoss \cup {NaN}
Signs == {0 - 1, 0, 1}

isnan(l) == l = NaN
\* Python's l > m on floats: false as soon as one side is NaN
Gt(l, m) == ~isnan(l) /\ ~isnan(m) /\ l > m
Last(s) == s[Len(s)]
Min(S) == CHOOSE m \in S : \A n \in S : m <= n

\* the signs self.regul / self.regul2 can return, where they are evaluated
RawRegs(evaluated) == IF evaluated THEN Signs ELSE {0}

\* The loss at step 0 (lines 536-564).  Losses are only compared with each
\* other, so the first one is taken as the smallest finite value.
loss0 == Min(FiniteLoss)

\* once the closure evaluates to NaN the tensors are NaN and stay NaN
StepLoss(l) == IF isnan(l) THEN {NaN} ELSE LossVals
\* outcomes of grad < gtol that matter at iteration kk
GradTest(kk, mk, l) == IF kk > mk /\ ~isnan(l) THEN BOOLEAN ELSE {FALSE}

\* ----------------------------------------------------------------- helpers
\* deepcopy of the live tensors (line 748)
deepcopy(it) == [call |-> it.call, ver |-> it.ver, partial |-> it.partial]
\* the tensors after a completed optimizer.step
Stepped(it) == [call |-> it.call, ver |-> it.ver + 1, partial |-> FALSE]
\* the tensors while optimizer.step is mutating them in place
InStep(it) == [call |-> it.call, ver |-> it.ver, partial |-> TRUE]

\* w = w_rp * loss / reg if w_rp and reg > 0 else 0   (lines 553, 556, 624, 627)
Weight(wrp, reg) == IF wrp # 0 /\ reg > 0 THEN 1 ELSE 0
\* (w_rp[0] and reg1 < 0) or (w_rp[1] and reg2 < 0)   (lines 558, 629)
WeightImpossible(wrp, reg1, reg2) ==
    (wrp[1] # 0 /\ reg1 < 0) \/ (wrp[2] # 0 /\ reg2 < 0)

\* if kactiv == "converg" : kactiv = maxiter   (line 440)
KactivOf(arg, mx) == IF arg = Converg THEN mx ELSE arg
\* Ractiv = 0 if kactiv else 1   (line 441)
InitRactiv(ka) == IF ka # 0 THEN 0 ELSE 1

\* if kactiv and k == kactiv   (line 733)
ActivationDue(ka, kk) == ka # 0 /\ kk = ka
\* mutant: the deactivation takes effect one iteration late
DeactivationLate(kd, kk, ra) == IF kd # 0 /\ kk = kd + 1 THEN 0 ELSE ra
\* if kdactiv and k == kdactiv: Ractiv = 0   (line 739); kdactiv = "converg"
\* is a string, which no k equals
Deactivation(kd, kk, ra) == IF kd # 0 /\ kk = kd THEN 0 ELSE ra

\* mutant: the convergence test is held off one iteration less
MinkAfterActivationShort(kk) == kk + 1
\* mink = k + 2   (lines 734, 757)
MinkAfterActivation(kk) == kk + 2

\* line 743: the condition under which self.final_estim = self.last_iter
CaptureCond(kk, l, ka, prev) ==
    kk > 1 /\ (isnan(l) \/ (ka # 0 /\ kk > ka /\ Gt(l, prev)))
\* line 784: the condition under which final_estim is what estimate returns
ReturnsFinal(kk, l, ka, prev, fe) ==
    kk > 1 /\ (isnan(l) \/ (ka # 0 /\ kk > ka /\ Gt(l, prev))) /\ fe # None
\* line 756: if not Ractiv and kactiv
ActivateOnConvergence(ra, ka) == ra = 0 /\ ka # 0
\* line 760
ConvergedEnding(kk, mx) == IF kk = mx THEN "max iter reached" ELSE "Gtol reached"
NanEnding == "Nan values end minimization. Last value estimated will be returned."
InterruptEnding == "keyboard interruption"

\* entries of log
StepEv(kk, ra, l, act) == [ev |-> "step", k |-> kk, Ractiv |-> ra, loss |-> l, act |-> act]
WeightsEv(kk, ra, l) == [ev |-> "weights", k |-> kk, Ractiv |-> ra, loss |-> l, act |-> TRUE]
OptimEv(kk, ra, l, act) == [ev |-> "optim", k |-> kk, Ractiv |-> ra, loss |-> l, act |-> act]
CaptureEv(kk, ra, l) == [ev |-> "capture", k |-> kk, Ractiv |-> ra, loss |-> l, act |-> FALSE]

\* -------------------------------------------------------------------- Init
\* no estimator has been constructed
NoCall == [op |-> "none", opt |-> "", pen |-> "", msk |-> "", n |-> 0, m |-> 0]
NoLambda == [mode |-> "none", form |-> "none", sign |-> 1]
NoTensors == [Lk |-> "init", Xk |-> "init", flux_k |-> <<>>, fluxR_k |-> <<>>]
NoEstimator ==
    /\ created = FALSE /\ model_nb_frame = 0
    /\ smooth = "none" /\ smoothL = FALSE /\ regul2 = NoLambda /\ mask = "1"
    /\ config = <<"none", "None">>
NoEstimate ==
    /\ tpc = "idle" /\ estimI = "none" /\ params = {} /\ rebuilt = FALSE
    /\ tens = NoTensors

\* no call of estimate has been made
LoopInit ==
    /\ pc = "idle"
    /\ L0x0 = "None" /\ L0 = "None"
    /\ last_iter = None /\ final_estim = None /\ candidate = None
    /\ result = NoResult
    /\ maxiter = 0 /\ kactiv = 0 /\ kdactiv = 0
    /\ w_pcent = FALSE /\ w_rp = <<0, 0>> /\ w_r = 0 /\ w_r2 = 0
    /\ k = 0 /\ mink = InitMink /\ Ractiv = 0 /\ ending = "none"
    /\ loss = 1 /\ loss_evo = <<>>
    /\ Lk = None /\ optimizer = 0 /\ activ_step = "none" /\ log = <<>>

\* ---------------------------------------------------------------- frames
Pixels == 1..3
PixVals == {0 - 1, 0, 1}
Zeros == [p \in Pixels |-> 0]
NoOut == [L_est |-> Zeros, X_est |-> Zeros, nice_L_est |-> Zeros,
          nice_X_est |-> Zeros]
NoFrames ==
    /\ fpc = "none" /\ coro = Zeros /\ Msk_px = Zeros
    /\ Lk_px = Zeros /\ Xk_px = Zeros /\ out = NoOut

NoCube ==
    /\ cube = <<>> /\ science_data = <<>> /\ aliased = TRUE
    /\ rot_angles = <<>>

NoRot == [angle |-> 0, nangle |-> 0, dangle |-> 0, cropped |-> FALSE,
          array_out |-> <<>>]
NoAlgo ==
    /\ fn = "none" /\ tensor = <<>> /\ angle = 0 /\ rot = NoRot
    /\ dim = 0 /\ scale = <<1, 1>> /\ ori_dim = TRUE /\ scaled = <<>>

Init ==
    /\ NoEstimator /\ call = NoCall /\ raised = "none" /\ NoEstimate
    /\ NoFrames /\ NoCube /\ NoAlgo
    /\ LoopInit

\* ---------------------------------------------------------------- set_init
\* set_init(X0, L0) with at least one argument, RDI = False
SetInit ==
    /\ UNCHANGED auxVars
    /\ pc = "idle"
    /\ L0x0' = "user"
    /\ UNCHANGED <<pc, L0, last_iter, final_estim, candidate, result,
                   maxiter, kactiv, kdactiv, w_pcent, w_rp, w_r, w_r2,
                   k, mink, Ractiv, ending, loss, loss_evo, Lk, optimizer,
                   activ_step, log>>

\* ---------------------------------------------- estimate, up to the loop
\* self.L0x0 after lines 476-508 (estimI other than "Halo"): both the
\* init_maxL branch and the else branch overwrite it
InitialPair(given) == "derived"

\* A snapshot kept from an earlier call is identified by that call alone.
Stale(s) == IF s = None THEN None ELSE [call |-> "earlier", ver |-> 0, partial |-> FALSE]

Estimate ==
    /\ UNCHANGED auxVars
    /\ pc = "idle"
    /\ \E mx \in 1..MaxIter, kaArg \in (0..MaxIter) \cup {Converg},
          kd \in (0..MaxIter) \cup {Converg},
          pcent \in BOOLEAN, wr \in {0, 1}, wr2 \in {0, 1} :
       \E reg1 \in RawRegs(pcent /\ InitRactiv(KactivOf(kaArg, mx)) = 1),
          reg2 \in RawRegs(pcent /\ InitRactiv(KactivOf(kaArg, mx)) = 1) :
        LET ka0 == KactivOf(kaArg, mx)
            ra  == InitRactiv(ka0)
            wrp == IF pcent THEN <<wr, wr2>> ELSE <<0, 0>>
            auto == pcent /\ ra = 1
            start == [call |-> "this", ver |-> 0, partial |-> FALSE]
        IN  /\ maxiter' = mx
            /\ kdactiv' = kd
            /\ w_pcent' = pcent
            /\ w_rp' = wrp
            /\ Ractiv' = ra
            /\ w_r'  = IF auto THEN Weight(wrp[1], reg1) ELSE wr
            /\ w_r2' = IF auto THEN Weight(wrp[2], reg2) ELSE wr2
            /\ kactiv' = IF auto /\ WeightImpossible(wrp, reg1, reg2)
                         THEN ForcedKactiv ELSE ka0
            /\ L0x0' = InitialPair(L0x0)
            /\ L0' = InitialPair(L0x0)
            /\ Lk' = start
            /\ last_iter' = start
            /\ loss' = loss0
            /\ loss_evo' = <<loss0>>
            /\ log' = <<OptimEv(0, ra, loss0, FALSE)>>
    /\ k' = 0 /\ mink' = InitMink /\ ending' = "undifined"
    /\ optimizer' = 1
    /\ activ_step' = "none"
    /\ candidate' = None
    /\ final_estim' = final_estim
    /\ result' = NoResult
    /\ pc' = "for"

\* ------------------------------------------- estimate, after the loop
\* lines 771-836 with the locals kk, l, ka, evo, the attributes fe
\* (self.final_estim), li (self.last_iter), the tensors it and ending e
Finish(kk, l, ka, evo, fe, li, it, e) ==
    /\ result' = [ending |-> e,
                  x |-> IF ReturnsFinal(kk, l, ka, Last(evo), fe) THEN fe ELSE it,
                  loss_evo |-> evo,
                  Kactiv |-> ka]
    /\ final_estim' = IF fe = None THEN li ELSE fe
    /\ pc' = "done"

\* ------------------------------------------------------ minimization loop
\* for k in range(1, maxiter+1) is exhausted; the rest of estimate follows
ForExhausted ==
    /\ UNCHANGED auxVars
    /\ pc = "for" /\ k = maxiter
    /\ Finish(k, loss, kactiv, loss_evo, final_estim, last_iter, Lk, ending)
    /\ UNCHANGED <<L0x0, L0, last_iter, candidate,
                   maxiter, kactiv, kdactiv, w_pcent, w_rp, w_r, w_r2,
                   k, mink, Ractiv, ending, loss, loss_evo, Lk, optimizer,
                   activ_step, log>>

\* lines 733-736: scheduled activation; activation() runs next, then continue
ScheduledActivation ==
    /\ UNCHANGED auxVars
    /\ pc = "for" /\ k < maxiter
    /\ ActivationDue(kactiv, k + 1)
    /\ k' = k + 1
    /\ Ractiv' = 1 /\ mink' = MinkAfterActivation(k + 1)
    /\ pc' = "activation" /\ activ_step' = "ACTIVATED"
    /\ UNCHANGED <<L0x0, L0, last_iter, final_estim, candidate, result,
                   maxiter, kactiv, kdactiv, w_pcent, w_rp, w_r, w_r2,
                   ending, loss, loss_evo, Lk, optimizer, log>>

\* mutant: the optimizer step is taken in both passes of activation()
PassEventsStepAlways(pass, pcent, kk, ra, l) ==
    <<StepEv(kk, ra, l, TRUE)>>
    \o (IF pcent THEN <<WeightsEv(kk, ra, l)>> ELSE <<>>)
    \o <<OptimEv(kk, ra, l, TRUE)>>
\* what one pass of activation() appends to log: the optimizer step of the
\* second pass, the weights when they are percentages, the new LBFGS
PassEvents(pass, pcent, kk, ra, l) ==
    (IF pass = "AJUSTED" THEN <<StepEv(kk, ra, l, TRUE)>> ELSE <<>>)
    \o (IF pcent THEN <<WeightsEv(kk, ra, l)>> ELSE <<>>)
    \o <<OptimEv(kk, ra, l, TRUE)>>

\* lines 614-660: one pass of the loop of activation()
ActivationPass ==
    /\ UNCHANGED auxVars
    /\ pc = "activation"
    /\ \E l \in (IF activ_step = "AJUSTED" THEN StepLoss(loss) ELSE {loss}),
          reg1 \in RawRegs(w_pcent), reg2 \in RawRegs(w_pcent) :
        /\ loss' = l
        /\ Lk' = IF activ_step = "AJUSTED" THEN Stepped(Lk) ELSE Lk
        /\ w_r'  = IF w_pcent THEN Weight(w_rp[1], reg1) ELSE w_r
        /\ w_r2' = IF w_pcent THEN Weight(w_rp[2], reg2) ELSE w_r2
        /\ log' = log \o PassEvents(activ_step, w_pcent, k, Ractiv, l)
    /\ optimizer' = optimizer + 1
    /\ IF activ_step = "ACTIVATED"
       THEN activ_step' = "AJUSTED" /\ pc' = "activation"
       ELSE activ_step' = "none" /\ pc' = "for"
    /\ UNCHANGED <<L0x0, L0, last_iter, final_estim, candidate, result,
                   maxiter, kactiv, kdactiv, w_pcent, w_rp,
                   k, mink, Ractiv, ending, loss_evo>>

\* lines 738-766: an iteration that is not a scheduled activation
MinimizerIteration ==
    /\ UNCHANGED auxVars
    /\ pc = "for" /\ k < maxiter
    /\ ~ActivationDue(kactiv, k + 1)
    /\ \E l \in StepLoss(loss) : \E conv \in GradTest(k + 1, mink, l) :
        LET kk  == k + 1
            ra  == Deactivation(kdactiv, kk, Ractiv)
            cap == CaptureCond(kk, l, kactiv, Last(loss_evo))
            fe  == IF cap THEN last_iter ELSE final_estim
            evo == Append(loss_evo, l)
            li  == deepcopy(Stepped(Lk))
        IN  /\ k' = kk
            /\ loss' = l
            /\ Lk' = Stepped(Lk)
            /\ candidate' = IF cap THEN last_iter ELSE candidate
            /\ log' = log \o <<StepEv(kk, ra, l, FALSE)>>
                          \o (IF cap THEN <<CaptureEv(kk, ra, l)>> ELSE <<>>)
            /\ loss_evo' = evo
            /\ last_iter' = li
            /\ IF kk > mink /\ conv
               THEN IF ActivateOnConvergence(ra, kactiv)
                    THEN /\ Ractiv' = 1 /\ mink' = MinkAfterActivation(kk)
                         /\ kactiv' = kk
                         /\ pc' = "activation" /\ activ_step' = "ACTIVATED"
                         /\ final_estim' = fe
                         /\ UNCHANGED <<ending, result>>
                    ELSE /\ ending' = ConvergedEnding(kk, maxiter)
                         /\ Ractiv' = ra
                         /\ UNCHANGED <<mink, kactiv, activ_step>>
                         /\ Finish(kk, l, kactiv, evo, fe, li, Stepped(Lk),
                                   ConvergedEnding(kk, maxiter))
               ELSE /\ Ractiv' = ra
                    /\ UNCHANGED <<mink, kactiv, activ_step>>
                    /\ IF isnan(l)
                       THEN /\ ending' = NanEnding
                            /\ Finish(kk, l, kactiv, evo, fe, li, Stepped(Lk),
                                      NanEnding)
                       ELSE /\ pc' = "for"
                            /\ final_estim' = fe
                            /\ UNCHANGED <<ending, result>>
    /\ UNCHANGED <<L0x0, L0, maxiter, kdactiv, w_pcent, w_rp,
                   w_r, w_r2, optimizer>>

\* lines 768-769: KeyboardInterrupt raised between two operations of the
\* loop; the rest of estimate follows
KeyboardInterrupt ==
    /\ UNCHANGED auxVars
    /\ pc \in {"for", "activation"}
    /\ ending' = InterruptEnding
    /\ Finish(k, loss, kactiv, loss_evo, final_estim, last_iter, Lk,
              InterruptEnding)
    /\ UNCHANGED <<L0x0, L0, last_iter, candidate,
                   maxiter, kactiv, kdactiv, w_pcent, w_rp, w_r, w_r2,
                   k, mink, Ractiv, loss, loss_evo, Lk, optimizer,
                   activ_step, log>>

\* KeyboardInterrupt raised inside optimizer.step(closure) of line 742: the
\* closure may already have run (loss rebound) and the tensors are half updated
InterruptInStep ==
    /\ UNCHANGED auxVars
    /\ pc = "for" /\ k < maxiter
    /\ ~ActivationDue(kactiv, k + 1)
    /\ \E l \in StepLoss(loss) \cup {loss} :
        /\ loss' = l
        /\ Finish(k + 1, l, kactiv, loss_evo, final_estim, last_iter,
                  InStep(Lk), InterruptEnding)
    /\ k' = k + 1
    /\ Ractiv' = Deactivation(kdactiv, k + 1, Ractiv)
    /\ Lk' = InStep(Lk)
    /\ ending' = InterruptEnding
    /\ UNCHANGED <<L0x0, L0, last_iter, candidate,
                   maxiter, kactiv, kdactiv, w_pcent, w_rp, w_r, w_r2,
                   mink, loss_evo, optimizer, activ_step, log>>

\* KeyboardInterrupt raised inside optimizer.step(closure) of line 617
InterruptInActivation ==
    /\ UNCHANGED auxVars
    /\ pc = "activation" /\ activ_step = "AJUSTED"
    /\ \E l \in StepLoss(loss) \cup {loss} :
        /\ loss' = l
        /\ Finish(k, l, kactiv, loss_evo, final_estim, last_iter,
                  InStep(Lk), InterruptEnding)
    /\ Lk' = InStep(Lk)
    /\ ending' = InterruptEnding
    /\ UNCHANGED <<L0x0, L0, last_iter, candidate,
                   maxiter, kactiv, kdactiv, w_pcent, w_rp, w_r, w_r2,
                   k, mink, Ractiv, loss_evo, optimizer, activ_step, log>>

\* estimate has returned and its frame is gone.  Between two calls the model
\* keeps of the estimator what a later call reads: L0x0 and final_estim.
Return ==
    /\ UNCHANGED auxVars
    /\ pc = "done"
    /\ pc' = "idle"
    /\ final_estim' = Stale(final_estim)
    /\ last_iter' = None /\ candidate' = None /\ result' = NoResult
    /\ L0' = "None"
    /\ maxiter' = 0 /\ kactiv' = 0 /\ kdactiv' = 0
    /\ w_pcent' = FALSE /\ w_rp' = <<0, 0>> /\ w_r' = 0 /\ w_r2' = 0
    /\ k' = 0 /\ mink' = InitMink /\ Ractiv' = 0 /\ ending' = "none"
    /\ loss' = 1 /\ loss_evo' = <<>>
    /\ Lk' = None /\ optimizer' = 0 /\ activ_step' = "none" /\ log' = <<>>
    /\ UNCHANGED L0x0

Next ==
    \/ SetInit
    \/ Estimate
    \/ ForExhausted
    \/ ScheduledActivation
    \/ ActivationPass
    \/ MinimizerIteration
    \/ KeyboardInterrupt
    \/ InterruptInStep
    \/ InterruptInActivation
    \/ Return

Spec == Init /\ [][Next]_vars

\* ============================================ construction and options
PupilKeys == {"None", "edge", "number", "other"}
R1Modes == {"smooth_with_edges", "smooth", "peak_preservation", "l1"}
R2Modes == {"dist", "mask", "l1"}
\* the tuple penaliz is tested against (line 282)
PenalizKeys == {"X", "L", "Both", "B", "Tb", "Trueboth"}
\* the Msk argument: absent, a tensor of the frame shape, one of another shape
MskArgs == {"None", "ok", "wrongsize"}
PenalizArgs == {"X", "L", "both", "B", "TB", "trueboth", "foo"}
EstimIArgs == {"Both", "frame", "L", "justx", "Justl", "Halo", "None", "foo"}
KernelSizes == {3, 5, 7, 9}

\* str.capitalize() on the option strings above
capitalize(str) ==
    CASE str = "both" -> "Both"
      [] str = "TB" -> "Tb"
      [] str = "trueboth" -> "Trueboth"
      [] str = "foo" -> "Foo"
      [] str = "frame" -> "Frame"
      [] str = "justx" -> "Justx"
      [] OTHER -> str

Call(op, opt, pen, msk, n, m) ==
    [op |-> op, opt |-> opt, pen |-> pen, msk |-> msk, n |-> n, m |-> m]

\* the frame count of model_ADI(rot_angles, coro, psf): one frame per angle
ModelNbFrame(na) == na
\* line 154: self.model.nb_frame != self.model.nb_frame
NbFrameMismatch(n) == n # n

\* configR1 (lines 211-224): the mode self.smooth is built for; a mode that
\* matches no branch leaves self.smooth as it was
SmoothOf(mode, old) == IF mode \in R1Modes THEN mode ELSE old

\* configR2 (lines 272-311): the exception it raises, "none" if it returns
ConfigR2Raises(msk, mode, pen) ==
    IF mode # "l1" /\ msk # "ok" THEN "TypeError"
    ELSE IF capitalize(pen) \notin PenalizKeys THEN "Exception"
    ELSE IF mode \notin R2Modes THEN "Exception"
    ELSE "none"
\* the lambda configR2 stores in self.regul2 (lines 285-309), pen capitalized
Regul2Of(mode, pen, invert, old) ==
    LET sign == IF invert THEN 0 - 1 ELSE 1
    IN  CASE mode = "dist" /\ pen \in {"X", "L"} ->
                [mode |-> "dist", form |-> "X", sign |-> 1]
          [] mode = "dist" /\ pen \in {"Both", "B"} ->
                [mode |-> "dist", form |-> "Both", sign |-> sign]
          [] mode = "mask" /\ pen \in {"X", "L"} ->
                [mode |-> "mask", form |-> pen, sign |-> 1]
          [] mode = "mask" /\ pen \in {"Both", "B"} ->
                [mode |-> "mask", form |-> "Both", sign |-> 1]
          [] mode = "mask" /\ pen \in {"Trueboth", "TB"} ->
                [mode |-> "mask", form |-> "Trueboth", sign |-> 1]
          [] mode = "l1" /\ pen \in {"X", "L"} ->
                [mode |-> "l1", form |-> pen, sign |-> 1]
          [] mode = "l1" /\ pen \in {"Both", "B"} ->
                [mode |-> "l1", form |-> "Both", sign |-> sign]
          [] mode = "l1" /\ pen \in {"Trueboth", "TB"} ->
                [mode |-> "l1", form |-> "Trueboth", sign |-> sign]
          [] OTHER -> old
\* self.mask after configR2 (lines 286, 295)
MaskOf(mode, invert, old) ==
    CASE mode = "dist" -> "Msk"
      [] mode = "mask" -> IF invert THEN "1-Msk" ELSE "Msk"
      [] OTHER -> old

\* R2_name = mode + " on " + penaliz (+ " inverted") (lines 313-314)
R2Name(mode, pen, invert) == [mode |-> mode, penaliz |-> pen, inverted |-> invert]
\* mutant: only the test of the mask comes before the assignments
StoresEarly(err) == err # "TypeError"
\* configR2 assigns self.mask, self.regul2 and config[1] on the paths that
\* raise nothing: the raises of lines 275 and 283 come before them and the
\* branch of line 311 assigns nothing
Stores(err) == err = "none"

\* mustard_estimator(science_data, angles, pupil=...) with nf frames in the
\* cube and na angles
Construct ==
    /\ tpc = "idle" /\ call = NoCall
    /\ \E nf \in 1..MaxFrames, na \in 1..MaxFrames, pupil \in PupilKeys :
        /\ call' = Call("init", pupil, "", "", nf, na)
        /\ IF pupil = "other"
           THEN raised' = "ValueError" /\ UNCHANGED configVars
           ELSE IF pupil = "None"
           \* pupilR is still None at line 143
           THEN raised' = "TypeError" /\ UNCHANGED configVars
           ELSE IF NbFrameMismatch(ModelNbFrame(na))
           \* raise of a str
           THEN raised' = "TypeError" /\ UNCHANGED configVars
           ELSE /\ raised' = "none"
                /\ created' = TRUE
                /\ model_nb_frame' = ModelNbFrame(na)
                \* self.config = ["smooth", None, ...]
                \* self.mask = 1; configR2(Msk=None, mode="l1", penaliz="X")
                /\ config' = <<"smooth", R2Name("l1", capitalize("X"), FALSE)>>
                /\ regul2' = Regul2Of("l1", capitalize("X"), FALSE, NoLambda)
                /\ mask' = MaskOf("l1", FALSE, "1")
                \* configR1(mode="smooth")
                /\ smooth' = SmoothOf("smooth", "none")
                /\ smoothL' = TRUE
    /\ UNCHANGED <<tpc, estimI, params, rebuilt, tens>>
    /\ UNCHANGED <<loopVars, frameVars, cubeVars, algoVars>>

ConfigR1 ==
    /\ tpc = "idle" /\ created /\ call = NoCall
    /\ \E mode \in R1Modes \cup {"foo"}, sL \in BOOLEAN :
        /\ call' = Call("configR1", mode, "", "", 0, 0)
        /\ raised' = "none"
        /\ smooth' = SmoothOf(mode, smooth)
        /\ smoothL' = sL
    /\ UNCHANGED <<created, model_nb_frame, regul2, mask, config>>
    /\ UNCHANGED <<tpc, estimI, params, rebuilt, tens>>
    /\ UNCHANGED <<loopVars, frameVars, cubeVars, algoVars>>

ConfigR2 ==
    /\ tpc = "idle" /\ created /\ call = NoCall
    /\ \E msk \in MskArgs, mode \in R2Modes \cup {"foo"}, pen \in PenalizArgs,
          invert \in BOOLEAN :
        /\ call' = Call("configR2", mode, pen, msk, 0, 0)
        /\ raised' = ConfigR2Raises(msk, mode, pen)
        /\ IF Stores(ConfigR2Raises(msk, mode, pen))
           THEN /\ regul2' = Regul2Of(mode, capitalize(pen), invert, regul2)
                /\ mask' = MaskOf(mode, invert, mask)
                /\ config' = [config EXCEPT
                                ![2] = R2Name(mode, capitalize(pen), invert)]
           ELSE UNCHANGED <<regul2, mask, config>>
    /\ UNCHANGED <<created, model_nb_frame, smooth, smoothL>>
    /\ UNCHANGED <<tpc, estimI, params, rebuilt, tens>>
    /\ UNCHANGED <<loopVars, frameVars, cubeVars, algoVars>>

\* laplacian_tensor_conv(tensor, kernel_size) of algo.py
LaplacianConv ==
    /\ tpc = "idle" /\ call = NoCall
    /\ \E ks \in KernelSizes :
        /\ call' = Call("laplacian_tensor_conv", "", "", "", ks, 0)
        /\ raised' = IF ks \in {3, 5, 7} THEN "none" ELSE "ValueError"
    /\ UNCHANGED <<configVars, tpc, estimI, params, rebuilt, tens>>
    /\ UNCHANGED <<loopVars, frameVars, cubeVars, algoVars>>

\* gaussian_tensor_conv(tensor, k_size) of algo.py
GaussianConv ==
    /\ tpc = "idle" /\ call = NoCall
    /\ \E ks \in KernelSizes :
        /\ call' = Call("gaussian_tensor_conv", "", "", "", ks, 0)
        /\ raised' = IF ks \in {3, 5} THEN "none" ELSE "ValueError"
    /\ UNCHANGED <<configVars, tpc, estimI, params, rebuilt, tens>>
    /\ UNCHANGED <<loopVars, frameVars, cubeVars, algoVars>>

\* ------------------------------------------- the trainable variables
\* mutant: activation() always hands every variable to the optimizer
TrainableAtActivationAll(e) == {"Lk", "Xk", "flux_k", "fluxR_k"}
\* the list given to optim.LBFGS inside activation() (lines 633-657)
TrainableAtActivation(e) ==
    CASE e = "Both"  -> {"Lk", "Xk", "flux_k", "fluxR_k"}
      [] e = "Frame" -> {"Lk", "Xk", "flux_k"}
      [] e = "L"     -> {"Lk", "Xk", "fluxR_k"}
      [] e = "Justx" -> {"Xk", "fluxR_k"}
      [] e = "Justl" -> {"Lk", "fluxR_k"}
      [] OTHER       -> {"Lk", "Xk"}
\* the list given to optim.LBFGS before the loop (lines 674-699)
TrainableAtStart(e) ==
    CASE e = "Both"  -> {"Lk", "Xk", "flux_k", "fluxR_k"}
      [] e = "Frame" -> {"Lk", "Xk", "flux_k"}
      [] e = "L"     -> {"Lk", "Xk", "fluxR_k"}
      [] e = "Justx" -> {"Xk", "fluxR_k"}
      [] e = "Justl" -> {"Lk", "fluxR_k"}
      [] OTHER       -> {"Lk", "Xk"}

\* torch.ones(n) (lines 519-520)
ones(n) == [i \in 1..n |-> 1]
\* Lk, Xk = L0.clone(), X0.clone(); flux_k, fluxR_k = ones(nb_frame - 1)
InitTensors(n) ==
    [Lk |-> "init", Xk |-> "init", flux_k |-> ones(n - 1), fluxR_k |-> ones(n - 1)]
\* the values an optimizer step can leave in a variable it was given
StepValues(name, old) ==
    IF name \in {"Lk", "Xk"} THEN {"init", "moved"}
    ELSE [1..Len(old) -> {1, 2}]
\* the factor the forward model applies to frame i: the first frame is the
\* reference, frame i > 1 takes entry i - 1 of the flux vector
FrameFactor(i, flux) == IF i = 1 THEN 1 ELSE flux[i - 1]

\* estimate(estimI=arg), up to the loop: the mode, the tensors, the optimizer
EstimateStart ==
    /\ tpc = "idle" /\ created
    /\ \E arg \in EstimIArgs :
        /\ call' = Call("estimate", arg, "", "", 0, 0)
        /\ IF capitalize(arg) = "Halo"
           \* self.halo0 = 0 has no numpy() (line 487)
           THEN /\ raised' = "AttributeError"
                /\ UNCHANGED <<tpc, estimI, params, rebuilt, tens>>
           ELSE /\ raised' = "none"
                /\ estimI' = capitalize(arg)
                /\ params' = TrainableAtStart(capitalize(arg))
                /\ tens' = InitTensors(model_nb_frame)
                /\ rebuilt' = FALSE
                /\ tpc' = "loop"
    /\ UNCHANGED configVars
    /\ UNCHANGED <<loopVars, frameVars, cubeVars, algoVars>>

\* optimizer.step(closure): LBFGS updates in place the tensors it was given
TrainStep ==
    /\ tpc = "loop"
    /\ \E new \in [Lk : StepValues("Lk", tens.Lk), Xk : StepValues("Xk", tens.Xk),
                   flux_k : StepValues("flux_k", tens.flux_k),
                   fluxR_k : StepValues("fluxR_k", tens.fluxR_k)] :
        tens' = [Lk |-> IF "Lk" \in params THEN new.Lk ELSE tens.Lk,
                 Xk |-> IF "Xk" \in params THEN new.Xk ELSE tens.Xk,
                 flux_k |-> IF "flux_k" \in params THEN new.flux_k ELSE tens.flux_k,
                 fluxR_k |-> IF "fluxR_k" \in params THEN new.fluxR_k ELSE tens.fluxR_k]
    /\ UNCHANGED <<configVars, call, raised, tpc, estimI, params, rebuilt>>
    /\ UNCHANGED <<loopVars, frameVars, cubeVars, algoVars>>

\* one pass of activation(): the optimizer is instantiated again
Reinstantiate ==
    /\ tpc = "loop"
    /\ params' = TrainableAtActivation(estimI)
    /\ rebuilt' = TRUE
    /\ UNCHANGED <<configVars, call, raised, tpc, estimI, tens>>
    /\ UNCHANGED <<loopVars, frameVars, cubeVars, algoVars>>

\* estimate returns
EstimateEnd ==
    /\ tpc = "loop"
    /\ tpc' = "idle" /\ estimI' = "none" /\ params' = {} /\ rebuilt' = FALSE
    /\ tens' = NoTensors
    /\ UNCHANGED <<configVars, call, raised>>
    /\ UNCHANGED <<loopVars, frameVars, cubeVars, algoVars>>

\* the caller has seen the call return or raise, and goes on
Resume ==
    /\ tpc = "idle" /\ call # NoCall
    /\ call' = NoCall /\ raised' = "none"
    /\ UNCHANGED <<configVars, tpc, estimI, params, rebuilt, tens>>
    /\ UNCHANGED <<loopVars, frameVars, cubeVars, algoVars>>

NextSetup ==
    \/ Resume
    \/ Construct
    \/ ConfigR1
    \/ ConfigR2
    \/ LaplacianConv
    \/ GaussianConv
    \/ EstimateStart
    \/ EstimateEnd

SpecSetup == Init /\ [][NextSetup]_vars

\* an estimator as its constructor leaves it, before any other call
Constructed ==
    \E nf \in 1..MaxFrames, na \in 1..MaxFrames, pupil \in {"edge", "number"} :
        /\ call = Call("init", pupil, "", "", nf, na)
        /\ raised = "none"
        /\ created = TRUE
        /\ model_nb_frame = ModelNbFrame(na)
        /\ config = <<"smooth", R2Name("l1", capitalize("X"), FALSE)>>
        /\ regul2 = Regul2Of("l1", capitalize("X"), FALSE, NoLambda)
        /\ mask = MaskOf("l1", FALSE, "1")
        /\ smooth = SmoothOf("smooth", "none")
        /\ smoothL = TRUE

InitTrain ==
    /\ Constructed /\ NoEstimate
    /\ NoFrames /\ NoCube /\ NoAlgo
    /\ LoopInit

NextTrain ==
    \/ EstimateStart
    \/ TrainStep
    \/ Reinstantiate
    \/ EstimateEnd

SpecTrain == InitTrain /\ [][NextTrain]_vars

\* ==================================================== pixels of the frames
\* self.ang_shift = 0 * find_nearest(...)
ang_shift == 0
\* p_L of configR1, p_w of configR2 (defaults)
p_L == 1
p_w == 2

Sum(f) == f[1] + f[2] + f[3]
abs(v) == IF v < 0 THEN 0 - v ELSE v
ReLU(v) == IF v > 0 THEN v ELSE 0
\* zero padding of conv2d(..., padding='same')
At(f, q) == IF q \in Pixels THEN f[q] ELSE 0
\* sobel_tensor_conv on a frame of one row: only the middle row of each 3x3
\* kernel meets the frame, [2, 0, -2] for axis 'y' and [0, 0, 0] for axis 'x'
sobel_tensor_conv(f, axis) ==
    IF axis = "y" THEN [p \in Pixels |-> 2 * At(f, p - 1) - 2 * At(f, p + 1)]
                  ELSE [p \in Pixels |-> 0]
\* a rotation about the centre: by 180 degrees the two outer pixels swap
frame_rotate(f, ang) == IF ang = 180 THEN [p \in Pixels |-> f[4 - p]] ELSE f

\* self.coroR for a pupil given as a number (lines 137-143): the same disk
coroR == coro

\* self.smooth(X) (lines 211-224); the epsilon of "smooth_with_edges" is a
\* constant offset
smoothVal(X) ==
    IF smooth = "l1"
    THEN Sum([p \in Pixels |-> coroR[p] * abs(X[p])])
    ELSE Sum([p \in Pixels |-> coroR[p] * sobel_tensor_conv(X, "y")[p]
                                        * sobel_tensor_conv(X, "y")[p]])
         + Sum([p \in Pixels |-> coroR[p] * sobel_tensor_conv(X, "x")[p]
                                          * sobel_tensor_conv(X, "x")[p]])
\* self.regul(X, L) (lines 227-228)
regul(X, L) == IF smoothL THEN smoothVal(X) + p_L * smoothVal(L) ELSE smoothVal(X)

\* the pixels of self.mask
M == CASE mask = "Msk" -> Msk_px
       [] mask = "1-Msk" -> [p \in Pixels |-> 1 - Msk_px[p]]
       [] OTHER -> [p \in Pixels |-> 1]
\* tsum(rM * (a - b) ** 2), tsum(rM * (m * a) ** 2), tsum(a ** 2)
SqDist(rM, a, b) == Sum([p \in Pixels |-> rM[p] * (a[p] - b[p]) * (a[p] - b[p])])
SqMasked(rM, m, a) == Sum([p \in Pixels |-> rM[p] * (m[p] * a[p]) * (m[p] * a[p])])
Ones == [p \in Pixels |-> 1]
\* self.regul2(X, L, self.mask) for the lambda held (lines 288-309); the
\* "Both" penalty of mode "mask" is given by its two sums, the factor
\* tsum(M)**2 / tsum(1 - M)**2 between them not depending on X or L
regul2Val(X, L) ==
    LET rM == coro
        notM == [p \in Pixels |-> 1 - M[p]]
    IN  CASE regul2.mode = "dist" /\ regul2.form = "X" -> <<SqDist(rM, M, X)>>
          [] regul2.mode = "dist" /\ regul2.form = "Both" ->
                <<regul2.sign * (SqDist(rM, M, X) - SqDist(rM, M, L))>>
          [] regul2.mode = "mask" /\ regul2.form = "X" -> <<SqMasked(rM, M, X)>>
          [] regul2.mode = "mask" /\ regul2.form = "L" -> <<SqMasked(rM, notM, L)>>
          [] regul2.mode = "mask" /\ regul2.form = "Both" ->
                <<SqMasked(rM, M, X), SqMasked(rM, notM, L)>>
          [] regul2.mode = "mask" /\ regul2.form = "Trueboth" ->
                <<SqMasked(Ones, M, X) + p_w * SqMasked(Ones, rM, L)>>
          [] regul2.mode = "l1" /\ regul2.form = "X" -> <<SqMasked(Ones, Ones, X)>>
          [] regul2.mode = "l1" /\ regul2.form = "L" -> <<SqMasked(Ones, Ones, L)>>
          [] regul2.mode = "l1" /\ regul2.form = "Both" ->
                <<regul2.sign * (SqMasked(Ones, Ones, X) - SqMasked(Ones, Ones, L))>>
          [] regul2.mode = "l1" /\ regul2.form = "Trueboth" ->
                <<regul2.sign * (SqMasked(Ones, Ones, X)
                                 + p_w * SqMasked(Ones, Ones, L))>>
          [] OTHER -> <<0>>

\* the frame the forward model predicts at a rotation angle: X rotated and
\* clamped, plus L, times the coronagraph mask
forward(L, X, ang) ==
    [p \in Pixels |-> coro[p] * (ReLU(frame_rotate(X, ang)[p]) + ReLU(L[p]))]
\* the data term and the positivity term of closure (lines 595, 602-603) for
\* two frames, at 0 and 180 degrees, of a cube that is 1 everywhere
DataAngles == {0, 180}
dataTerm(L, X, a) ==
    Sum([p \in Pixels |-> coro[p] * coro[p] * (forward(L, X, a)[p] - 1)
                                             * (forward(L, X, a)[p] - 1)])
Rpos(L, X, a) ==
    Sum([p \in Pixels |-> coro[p] * coro[p] * ReLU(forward(L, X, a)[p] - 1)
                                             * ReLU(forward(L, X, a)[p] - 1)])
\* the terms closure sums into the loss (lines 588-604), weights left out
LossTerms ==
    [data |-> [a \in DataAngles |-> dataTerm(Lk_px, Xk_px, a)],
     R1 |-> regul(Xk_px, Lk_px),
     R2 |-> regul2Val(Xk_px, Lk_px),
     Rpos |-> [a \in DataAngles |-> Rpos(Lk_px, Xk_px, a)]]

\* the masks a coronagraph of radius 0 or 1 leaves on the row
CoroMasks == {<<1, 1, 1>>, <<1, 0, 1>>}
\* the prior masks given to configR2 (their maximum is 1)
MskFrames == {<<0, 1, 0>>, <<1, 1, 0>>}

\* an estimator configured by one call of configR1 and one of configR2, at
\* the start of the loop of estimate: L0 and X0 were clipped at 0
InitFrame ==
    /\ created = TRUE /\ model_nb_frame = 2
    /\ call = Call("estimate", "None", "", "", 0, 0) /\ raised = "none"
    /\ \E mode1 \in R1Modes \ {"peak_preservation"} : smooth = SmoothOf(mode1, "smooth")
    /\ smoothL \in BOOLEAN
    /\ \E msk \in {"None", "ok"}, mode \in R2Modes, pen \in {"X", "L", "both", "TB"},
          invert \in BOOLEAN :
        /\ ConfigR2Raises(msk, mode, pen) = "none"
        /\ config = <<"smooth", R2Name(mode, capitalize(pen), invert)>>
        /\ regul2 = Regul2Of(mode, capitalize(pen), invert,
                             Regul2Of("l1", "X", FALSE, NoLambda))
        /\ mask = MaskOf(mode, invert, "1")
        /\ Msk_px \in (IF mode = "l1" THEN {Zeros} ELSE MskFrames)
    /\ NoEstimate
    /\ fpc = "loop"
    /\ coro \in CoroMasks
    /\ Lk_px \in [Pixels -> {0, 1}] /\ Xk_px \in [Pixels -> {0, 1}]
    /\ out = NoOut
    /\ NoCube /\ NoAlgo
    /\ LoopInit

\* optimizer.step(closure) writes the pixels of Lk and Xk in place; the
\* writes are taken one pixel at a time
StepPixel ==
    /\ fpc = "loop"
    /\ \E p \in Pixels, v \in PixVals :
        \/ Lk_px' = [Lk_px EXCEPT ![p] = v] /\ UNCHANGED Xk_px
        \/ Xk_px' = [Xk_px EXCEPT ![p] = v] /\ UNCHANGED Lk_px
    /\ UNCHANGED <<fpc, coro, Msk_px, out>>
    /\ UNCHANGED <<loopVars, setupVars, cubeVars, algoVars>>

\* lines 784-814 and 835-836: the frames estimate returns (L_est, X_est) and
\* the frames it stores in res['x']
Output ==
    /\ fpc = "loop"
    /\ fpc' = "done"
    /\ out' = [L_est |-> Lk_px, X_est |-> Xk_px,
               nice_L_est |-> [p \in Pixels |->
                    coro[p] * frame_rotate(Lk_px, 0 - ang_shift)[p]],
               nice_X_est |-> [p \in Pixels |->
                    coro[p] * frame_rotate(Xk_px, 0 - ang_shift)[p]]]
    /\ UNCHANGED <<coro, Msk_px, Lk_px, Xk_px>>
    /\ UNCHANGED <<loopVars, setupVars, cubeVars, algoVars>>

NextFrame ==
    \/ StepPixel
    \/ Output

SpecFrame == InitFrame /\ [][NextFrame]_vars

\* ===================================================== the science cube
FrameIds == 1..2
Min2(a, b) == IF a < b THEN a ELSE b
Max2(a, b) == IF a > b THEN a ELSE b
\* np.median of the three pixels of a frame
median(f) == Sum(f) - Max2(f[1], Max2(f[2], f[3])) - Min2(f[1], Min2(f[2], f[3]))
\* np.min(c, 0): the minimum over the frames, pixel by pixel
MinOverFrames(c) == [p \in Pixels |-> Min2(c[1][p], c[2][p])]
\* cube_derotate(c, angles): each frame rotated back by its angle
cube_derotate(c, angles) ==
    [f \in FrameIds |-> frame_rotate(c[f], IF angles[f] = 180 THEN 180 ELSE 0)]

\* lines 455-458: each frame minus the median of its masked pixels, clipped
MedSub(c) ==
    [f \in FrameIds |->
        [p \in Pixels |->
            ReLU(c[f][p] - median([q \in Pixels |-> coro[q] * c[f][q]]))]]
\* decompose (lines 839-846); of the 50 rotations of line 843 the row holds
\* the two that map pixels to pixels
speckles(c) == MinOverFrames(c)
ambiguities(c) ==
    MinOverFrames(cube_derotate([f \in FrameIds |-> speckles(c)], rot_angles))
stellar_halo(c) ==
    MinOverFrames(cube_derotate([f \in FrameIds |-> ambiguities(c)], <<0, 180>>))
decompose(c) ==
    [f \in FrameIds |->
        [p \in Pixels |-> c[f][p] - speckles(c)[p] + stellar_halo(c)[p]]]

\* the state the constructor leaves (line 150: self.science_data is the
\* caller's array)
InitCube ==
    /\ Constructed /\ NoEstimate
    /\ fpc = "none" /\ Msk_px = Zeros /\ Lk_px = Zeros /\ Xk_px = Zeros
    /\ out = NoOut
    /\ coro \in CoroMasks
    /\ cube \in [FrameIds -> [Pixels -> 0..MaxPix]]
    /\ science_data = cube
    /\ aliased = TRUE
    /\ rot_angles \in {<<0, 0>>, <<0, 180>>}
    /\ NoAlgo
    /\ LoopInit

\* estimate, lines 454-460: what a call does to the cube before it fits
EstimateCube ==
    /\ \E med_sub \in BOOLEAN, min_sub \in BOOLEAN :
        LET sub == IF med_sub THEN MedSub(science_data) ELSE science_data
        IN  /\ cube' = IF aliased THEN sub ELSE cube
            /\ science_data' = IF min_sub THEN decompose(sub) ELSE sub
            /\ aliased' = (aliased /\ ~min_sub)
    /\ UNCHANGED rot_angles
    /\ UNCHANGED <<loopVars, setupVars, frameVars, algoVars>>

NextCube == EstimateCube

SpecCube == InitCube /\ [][NextCube]_vars

\* ================================================ rotation by Fourier shears
\* np.rint, torch.round and round: y / d rounded to the nearest integer,
\* a half to the even one (d > 0)
Round(y, d) ==
    LET q == y \div d
        r == y % d
    IN  IF 2 * r < d THEN q
        ELSE IF 2 * r > d THEN q + 1
        ELSE IF q % 2 = 0 THEN q ELSE q + 1

RECURSIVE WrapAngle(_)
\* lines 254-257: the two while loops
WrapAngle(a) ==
    IF a < 0 THEN WrapAngle(a + 360)
    ELSE IF a > 360 THEN WrapAngle(a - 360)
    ELSE a
\* lines 259-267: the residual angle of the shears and the quarter turns
Dangle(a) ==
    IF a > 45
    THEN IF (a % 90) > 45 THEN 0 - (90 - (a % 90)) ELSE a % 90
    ELSE a
Nangle(a) == IF a > 45 THEN Round(a, 90) ELSE 0

Rows(f) == Len(f)
Cols(f) == IF Len(f) = 0 THEN 0 ELSE Len(f[1])
\* torch.rot90(tensor, 1, [1, 2])
Rot90(f) ==
    [i \in 1..Cols(f) |-> [j \in 1..Rows(f) |-> f[j][Cols(f) + 1 - i]]]
RECURSIVE Rot90N(_, _)
Rot90N(f, n) == IF n % 4 = 0 THEN f ELSE Rot90N(Rot90(f), (n % 4) - 1)
\* tensor_in[:, :-1, :-1]
CropLast(f) ==
    [i \in 1..(Rows(f) - 1) |-> [j \in 1..(Cols(f) - 1) |-> f[i][j]]]
\* array_out[0, :-1, :-1] = torch.real(s_xyx) on a frame of zeros
PadLast(f) ==
    [i \in 1..(Rows(f) + 1) |-> [j \in 1..(Cols(f) + 1) |->
        IF i <= Rows(f) /\ j <= Cols(f) THEN f[i][j] ELSE 0]]

\* 1000 * tan(d / 2) and 1000 * sin(d) for the residual angles used
TanHalf(d) ==
    CASE d = 0 -> 0
      [] d = 30 -> 268 [] d = 0 - 30 -> 0 - 268
      [] d = 45 -> 414 [] d = 0 - 45 -> 0 - 414
Sin(d) ==
    CASE d = 0 -> 0
      [] d = 30 -> 500 [] d = 0 - 30 -> 0 - 500
      [] d = 45 -> 707 [] d = 0 - 45 -> 0 - 707

\* tensor_fft_shear (lines 297-312): the phase exp(-2j pi c u x) moves the
\* line at distance t of the centre by c * t pixels along ax, circularly;
\* the shift is taken to whole pixels.  c is in thousandths.
tensor_fft_shear(f, c, ax) ==
    IF ax = 2
    THEN [i \in 1..Rows(f) |-> [j \in 1..Cols(f) |->
            f[i][((j - 1 - Round(c * (i - 1 - Rows(f) \div 2), 1000))
                  % Cols(f)) + 1]]]
    ELSE [i \in 1..Rows(f) |-> [j \in 1..Cols(f) |->
            f[((i - 1 - Round(c * (j - 1 - Cols(f) \div 2), 1000))
                  % Rows(f)) + 1][j]]]

\* lines 269-271 and 286-292: the test that crops and pads
OddShape(f) == Rows(f) % 2 = 1 \/ Cols(f) % 2 = 1

\* tensor_rotate_fft (lines 252-294)
tensor_rotate_fft(f, ang) ==
    LET a0 == WrapAngle(ang)
        dangle == Dangle(a0)
        nangle == Nangle(a0)
        turned == IF a0 > 45 THEN Rot90N(f, nangle) ELSE f
        tensor_in == IF OddShape(f) THEN CropLast(turned) ELSE turned
        a == TanHalf(dangle)
        b == 0 - Sin(dangle)
        s_x == tensor_fft_shear(tensor_in, a, 2)
        s_xy == tensor_fft_shear(s_x, b, 1)
        s_xyx == tensor_fft_shear(s_xy, a, 2)
    IN  [angle |-> a0, nangle |-> nangle, dangle |-> dangle,
         cropped |-> OddShape(f),
         array_out |-> IF OddShape(f) THEN PadLast(s_xyx) ELSE s_xyx]

RECURSIVE SumSeq(_)
SumSeq(q) == IF q = <<>> THEN 0 ELSE Head(q) + SumSeq(Tail(q))
\* torch.sum of a frame
FrameSum(f) == SumSeq([i \in 1..Rows(f) |-> SumSeq(f[i])])

\* the frames and the angles given
FrameSides == {2, 3}
Frames == UNION {[1..ny -> [1..nx -> {0, 1}]] : ny \in FrameSides, nx \in FrameSides}
Angles == {0 - 90, 0 - 45, 0, 30, 45, 60, 90, 135, 180, 225, 270, 315, 360, 405}

InitRotate ==
    /\ Constructed /\ NoEstimate /\ NoFrames /\ NoCube
    /\ fn = "tensor_rotate_fft"
    /\ tensor \in Frames
    /\ angle \in Angles
    /\ rot = NoRot
    /\ dim = 0 /\ scale = <<1, 1>> /\ ori_dim = TRUE /\ scaled = <<>>
    /\ LoopInit

TensorRotateFft ==
    /\ fn = "tensor_rotate_fft"
    /\ fn' = "rotated"
    /\ rot' = tensor_rotate_fft(tensor, angle)
    /\ UNCHANGED <<tensor, angle, dim, scale, ori_dim, scaled>>
    /\ UNCHANGED <<loopVars, setupVars, frameVars, cubeVars>>

NextRotate == TensorRotateFft

SpecRotate == InitRotate /\ [][NextRotate]_vars

\* ================================================== rescaling by Fourier
\* the scale factors, as fractions: 0.5, 1.5 and 2.0
Scales == {<<1, 2>>, <<3, 2>>, <<2, 1>>}
Inverse(sc) == <<sc[2], sc[1]>>
\* kd_array = torch.arange(dim/2 + 1)   (line 340)
kd_array(n) == 0..((n + 1) \div 2)
\* yy = dim/2 * (scale - 1) + kd_array * scale, as the fraction YY / YYden
YY(n, sc, kd) == n * (sc[1] - sc[2]) + 2 * kd * sc[1]
YYden(sc) == 2 * sc[2]
\* kf_array = torch.round(yy)   (line 353)
kf_array(n, sc, kd) == Round(YY(n, sc, kd), YYden(sc))
\* imin = torch.argmin(torch.abs(yy - kf_array)): the first smallest one
imin(n, sc) ==
    LET tmp(kd) == abs(YY(n, sc, kd) - kf_array(n, sc, kd) * YYden(sc))
    IN  CHOOSE kd \in kd_array(n) :
            /\ \A o \in kd_array(n) : tmp(kd) <= tmp(o)
            /\ \A o \in kd_array(n) : o < kd => tmp(o) > tmp(kd)
\* dim_resc, lines 385-389
dim_resc(n, sc) ==
    LET r == Round(sc[1] * n, sc[2])
    IN  IF r > n /\ r % 2 # n % 2 THEN r + 1
        ELSE IF r < n /\ r % 2 # n % 2 THEN r - 1
        ELSE r
\* the side of the array tensor_fft_scale returns (lines 336-407)
tensor_fft_scale(n, sc, od) ==
    LET kd_io == imin(n, sc)
        kf_io == kf_array(n, sc, kd_io)
        dim_pp == n + 2 * kf_io
        resc == dim_resc(n, sc)
    IN  IF sc[1] = sc[2] THEN n
        ELSE IF ~od /\ dim_pp > resc
             THEN (dim_pp + resc) \div 2 - (dim_pp - resc) \div 2
        ELSE IF ~od THEN resc
        ELSE n

InitScale ==
    /\ Constructed /\ NoEstimate /\ NoFrames /\ NoCube
    /\ fn = "tensor_fft_scale"
    /\ tensor = <<>> /\ angle = 0 /\ rot = NoRot
    /\ dim \in 3..MaxDim
    /\ scale \in Scales
    /\ ori_dim \in BOOLEAN
    /\ scaled = <<>>
    /\ LoopInit

\* tensor_fft_scale(array, scale, ori_dim)
ScaleForth ==
    /\ fn = "tensor_fft_scale"
    /\ fn' = "scaled"
    /\ scaled' = <<tensor_fft_scale(dim, scale, ori_dim)>>
    /\ UNCHANGED <<tensor, angle, rot, dim, scale, ori_dim>>
    /\ UNCHANGED <<loopVars, setupVars, frameVars, cubeVars>>

\* tensor_fft_scale(scaled array, 1 / scale, ori_dim)
ScaleBack ==
    /\ fn = "scaled"
    /\ fn' = "rescaled"
    /\ scaled' = Append(scaled, tensor_fft_scale(scaled[1], Inverse(scale), ori_dim))
    /\ UNCHANGED <<tensor, angle, rot, dim, scale, ori_dim>>
    /\ UNCHANGED <<loopVars, setupVars, frameVars, cubeVars>>

NextScale ==
    \/ ScaleForth
    \/ ScaleBack

SpecScale == InitScale /\ [][NextScale]_vars

\* ------------------------------------------------------- reading the log
IsStep(e) == e.ev = "step"
IsAct(e) == e.act
\* the optimizer.step calls completed in this call, in order
Steps == SelectSeq(log, IsStep)
\* what the Activation transitions of this call did, in order
ActLog == SelectSeq(log, IsAct)
\* the iterate the i-th optimizer.step of this call started from
IterateBefore(i) == [call |-> "this", ver |-> i - 1, partial |-> FALSE]
\* some optimizer was built, or some step taken, with Ractiv = 1
EverActive == \E i \in 1..Len(log) : log[i].Ractiv = 1
\* this step of the model is an iteration of lines 738-766
IsIteration == pc = "for" /\ Len(loss_evo') = Len(loss_evo) + 1
Reasons == {"max iter reached", "Gtol reached", NanEnding, InterruptEnding}

\* ------------------------------------------------------------------ C1
\* C1: when a final candidate was captured during the call, the (L, X)
\* estimate returns is that candidate, whatever way the loop ended.
C1_ReturnsCandidate ==
    (pc = "done" /\ candidate # None) => result.x = candidate

\* ------------------------------------------------------------------ C2
\* C2: at the first optimizer step whose loss is NaN the loop stops, at that
\* iteration and with the NaN reason, and the (L, X) returned is the iterate
\* that step started from (the last one with a finite loss).
NanSteps == {i \in 1..Len(Steps) : isnan(Steps[i].loss)}
C2_NanGuard ==
    (pc = "done" /\ NanSteps # {}) =>
        LET i == Min(NanSteps)
        IN  /\ result.ending = NanEnding
            /\ k = Steps[i].k
            /\ result.x = IterateBefore(i)

\* ------------------------------------------------------------------ C3
\* C3: the termination reason of a finished call is one of the four reasons,
\* never the placeholder it was initialised with.
C3_EndingNamesExit ==
    pc = "done" => result.ending \in Reasons

\* ------------------------------------------------------------------ C4
\* C4: an iteration whose convergence test is met triggers the Activation
\* transition when kactiv is set and regularization has never been active
\* in this call, and ends the call as converged in every other case.
ConvergedExit == pc' = "done" /\ ending' \in {"Gtol reached", "max iter reached"}
C4_ConvergenceBranch ==
    [][(IsIteration /\ (pc' = "activation" \/ ConvergedExit))
         => (pc' = "activation" <=> (kactiv # 0 /\ ~EverActive))]_vars

\* ------------------------------------------------------------------ C5
\* C5: every completed Activation transition did, in this order and with
\* Ractiv = 1 throughout: weights (when they are percentages), new optimizer,
\* one optimizer step, weights from the loss of that step, new optimizer;
\* nothing else re-instantiates the optimizer.
ActPattern(pcent) ==
    IF pcent THEN <<"weights", "optim", "step", "weights", "optim">>
             ELSE <<"optim", "step", "optim">>
\* the first entry of the block of ActLog that entry i belongs to
BlockStart(i, n) == i - ((i - 1) % n)
C6_DeactivationLasts ==
    kdactiv # 0 =>
        \A i \in 1..Len(Steps) : Steps[i].k >= kdactiv => Steps[i].Ractiv = 0
\* C6 amended: from iteration kdactiv on, an optimizer step has Ractiv = 0
\* unless an Activation transition ran at iteration kdactiv or later before
\* it; and only the start of the call and the Activation transitions build
\* an optimizer.
C6_DeactivationUntilActivation ==
    /\ kdactiv # 0 =>
         \A i \in 1..Len(log) :
            (log[i].ev = "step" /\ log[i].k >= kdactiv) =>
                \/ log[i].Ractiv = 0
                \/ \E j \in 1..i : log[j].act /\ log[j].k >= kdactiv
    /\ \A i \in 1..Len(log) : log[i].ev = "optim" => (i = 1 \/ log[i].act)
    /\ optimizer = Cardinality({i \in 1..Len(log) : log[i].ev = "optim"})
C6_Witness ==
    /\ kdactiv # 0
    /\ \E i, j \in 1..Len(Steps) :
         /\ Steps[i].k < kdactiv /\ Steps[i].Ractiv = 1
         /\ Steps[j].k > kdactiv /\ Steps[j].Ractiv = 0

\* ------------------------------------------------------------------ C7
\* C7: an iteration k > 1 with a finite loss captures a final candidate exactly
\* when that loss is greater than the previously recorded one and the step
\* was taken with regularization active (Ractiv = 1); the candidate is the
\* snapshot recorded before the step.
C7_CaptureWhenActive ==
    [][(IsIteration /\ k' > 1 /\ ~isnan(loss')) =>
         LET captured == Len(log') = Len(log) + 2
             step == log'[Len(log) + 1]
         IN  /\ captured <=> (Gt(loss', Last(loss_evo)) /\ step.Ractiv = 1)
             /\ captured => candidate' = last_iter]_vars

\* ------------------------------------------------------------------ C8
\* C8: a call ended by KeyboardInterrupt returns the last recorded snapshot.
C8_InterruptReturnsSnapshot ==
    (pc = "done" /\ result.ending = InterruptEnding) => result.x = last_iter

\* ------------------------------------------------------------------ C9
\* C9: a call made after set_init starts the iteration from the supplied
\* pair.
C9_StartsFromSuppliedPair ==
    [][(pc = "idle" /\ pc' = "for" /\ L0x0 = "user") => L0' = "user"]_vars

\* ------------------------------------------------------------------ C10
\* C10: a call runs at most maxiter outer iterations and takes at most
\* maxiter optimizer steps, those of the Activation transitions included.
C10_MaxiterBoundsSteps ==
    k <= maxiter /\ Len(Steps) <= maxiter

\* ------------------------------------------------------------------ C11
\* C11: the loss trajectory of a call that was not interrupted holds the
\* initial loss and then, for every iteration 1..k the loop executed, the
\* loss after that iteration.
LastStepOf(j) ==
    LET S == {i \in 1..Len(Steps) : Steps[i].k = j}
    IN  Steps[CHOOSE i \in S : \A n \in S : n <= i]
C11_LossPerIteration ==
    (pc = "done" /\ result.ending # InterruptEnding) =>
        /\ Len(result.loss_evo) = k + 1
        /\ \A j \in 1..k : result.loss_evo[j + 1] = LastStepOf(j).loss

\* ------------------------------------------------------------------ C12
\* C12: a call never ends as converged at an iteration k <= 2, nor at an
\* iteration k <= a + 2 when an Activation transition ran at iteration a.
C12_ConvergedAfterMink ==
    [][(IsIteration /\ ConvergedExit) =>
         /\ k' > 2
         /\ \A i \in 1..Len(log) : log[i].act => k' > log[i].k + 2]_vars
C12_Witness ==
    /\ pc = "done"
    /\ result.ending \in {"Gtol reached", "max iter reached"}
    /\ \E i \in 1..Len(log) : log[i].act /\ k = log[i].k + 3

\* ------------------------------------------------------------------ C14
\* C14: whenever the percentage weights are computed (step 0 of a call with
\* regularization active, both passes of activation()) and a requested
\* weight comes out of a raw value that is not strictly positive (the
\* weight is then 0), the activation is forced at iteration 2.
AdaptiveWeightsComputed ==
    \/ pc = "idle" /\ pc' = "for" /\ w_pcent' /\ Ractiv' = 1
    \/ pc = "activation" /\ optimizer' = optimizer + 1 /\ w_pcent
RequestedWeightInvalid ==
    \/ w_rp'[1] # 0 /\ w_r' = 0
    \/ w_rp'[2] # 0 /\ w_r2' = 0
C14_FallbackForcesActivation ==
    [][(AdaptiveWeightsComputed /\ RequestedWeightInvalid)
         => kactiv' = ForcedKactiv]_vars

\* ------------------------------------------------------------------ C20
\* C20: with kdactiv = "converg", the first iteration at which the break
\* point is reached switches regularization off and the loop goes on.
\* an earlier iteration of this call reached the break point: it took its
\* optimizer step and then ran activation()
ConvergedBefore ==
    \E i, j \in 1..Len(log) :
        log[i].act /\ IsStep(log[j]) /\ ~log[j].act /\ log[i].k = log[j].k
BreakPointReached == IsIteration /\ (pc' = "activation" \/ ConvergedExit)
C20_DeactivationOnConvergence ==
    [][(kdactiv = Converg /\ BreakPointReached /\ ~ConvergedBefore)
         => (Ractiv' = 0 /\ pc' = "for")]_vars

\* ------------------------------------------------------------------ C15
\* C15: constructing an estimator with a number of angles that differs from
\* the number of frames of the cube fails.
C15_MismatchRejected ==
    (call.op = "init" /\ call.n # call.m) => raised # "none"

\* ------------------------------------------------------------------ C16
\* C16: a call given an invalid enumerated option (unknown pupil key, unknown
\* R1 mode, unknown R2 mode or penaliz or a mask of the wrong size, an
\* unsupported kernel size, an estimation mode that is not enumerated)
\* raises an error.
EstimModes == {"None", "Frame", "L", "Both", "Justx", "Justl", "Halo"}
InvalidOption(c) ==
    \/ c.op = "init" /\ c.opt \notin {"None", "edge", "number"}
    \/ c.op = "configR1" /\ c.opt \notin R1Modes
    \/ c.op = "configR2" /\ \/ c.opt \notin R2Modes
                            \/ capitalize(c.pen) \notin PenalizKeys
                            \/ c.msk = "wrongsize"
    \/ c.op = "laplacian_tensor_conv" /\ c.n \notin {3, 5, 7}
    \/ c.op = "gaussian_tensor_conv" /\ c.n \notin {3, 5}
    \/ c.op = "estimate" /\ capitalize(c.opt) \notin EstimModes
C16_InvalidOptionRejected ==
    InvalidOption(call) => raised # "none"

\* ------------------------------------------------------------------ C19
\* C19: during the loop the optimizer holds the variable group of the mode,
\* the same before and after every re-instantiation; a variable outside the
\* group keeps its initial value; the flux vectors have one entry less than
\* the model has frames and the factor of the first frame is 1.
Group(e) ==
    CASE e = "None"  -> {"Lk", "Xk"}
      [] e = "Frame" -> {"Lk", "Xk", "flux_k"}
      [] e = "L"     -> {"Lk", "Xk", "fluxR_k"}
      [] e = "Both"  -> {"Lk", "Xk", "flux_k", "fluxR_k"}
      [] OTHER       -> params
C19_TrainableSet ==
    tpc = "loop" =>
        /\ params = TrainableAtStart(estimI)
        /\ params = Group(estimI)
        /\ \A v \in {"Lk", "Xk", "flux_k", "fluxR_k"} \ params :
                tens[v] = InitTensors(model_nb_frame)[v]
        /\ Len(tens.flux_k) = model_nb_frame - 1
        /\ Len(tens.fluxR_k) = model_nb_frame - 1
        /\ FrameFactor(1, tens.flux_k) = 1 /\ FrameFactor(1, tens.fluxR_k) = 1
C19_Witness ==
    /\ tpc = "loop" /\ rebuilt /\ estimI = "Frame"
    /\ tens.Lk = "moved" /\ tens.Xk = "moved"
    /\ Len(tens.flux_k) > 0 /\ tens.flux_k # ones(Len(tens.flux_k))
    /\ tens.fluxR_k = ones(Len(tens.fluxR_k))

\* ------------------------------------------------------------------ C13
\* C13: the frames estimate returns and the frames of res['x'] are
\* non-negative at every pixel and zero where the coronagraph mask is zero.
Clamped(f) == \A p \in Pixels : f[p] >= 0 /\ (coro[p] = 0 => f[p] = 0)
C13_OutputClampedMasked ==
    fpc = "done" =>
        /\ Clamped(out.L_est) /\ Clamped(out.X_est)
        /\ Clamped(out.nice_L_est) /\ Clamped(out.nice_X_est)

\* ------------------------------------------------------------------ C18
\* C18: writing L or X at pixels where the coronagraph mask is zero changes
\* no term of the loss.
OnlyOccultedWritten ==
    /\ fpc = "loop" /\ fpc' = "loop"
    /\ \A p \in Pixels :
         coro[p] # 0 => (Lk_px'[p] = Lk_px[p] /\ Xk_px'[p] = Xk_px[p])
C18_OccultedPixelsInert ==
    [][OnlyOccultedWritten => LossTerms' = LossTerms]_vars

\* ------------------------------------------------------------------ C17
\* C17: a call of estimate, whatever med_sub and min_sub are, leaves the
\* estimator's science_data and the caller's array holding the values they
\* held before the call.
C17_CubeReadOnly ==
    [][EstimateCube => (science_data' = science_data /\ cube' = cube)]_vars

\* ------------------------------------------------------------------ C21
\* C21: tensor_rotate_fft wraps the angle into [0, 360) and rotates by n
\* quarter turns and a residual angle d with |d| <= 45 and 90 n + d
\* congruent to the angle given modulo 360.
C21_AngleDecomposition ==
    fn = "rotated" =>
        /\ rot.angle >= 0 /\ rot.angle < 360
        /\ rot.dangle >= 0 - 45 /\ rot.dangle <= 45
        /\ (90 * rot.nangle + rot.dangle - angle) % 360 = 0

\* ------------------------------------------------------------------ C22
\* C22: the frame is cropped by one row and one column, and padded back
\* with zeros, exactly when its dimensions are even; the output has the
\* dimensions of the input.
EvenShape(f) == Rows(f) % 2 = 0 /\ Cols(f) % 2 = 0
C22_ParityHandling ==
    fn = "rotated" =>
        /\ rot.cropped <=> EvenShape(tensor)
        /\ Rows(rot.array_out) = Rows(tensor)
        /\ Cols(rot.array_out) = Cols(tensor)

\* ------------------------------------------------------------------ C23
\* C23: the pixels of the rotated frame sum to what the pixels of the frame
\* given sum to.
C23_FluxConserved ==
    fn = "rotated" => FrameSum(rot.array_out) = FrameSum(tensor)

\* ------------------------------------------------------------------ C24
\* C24: tensor_fft_scale with a scale s and then with 1 / s returns an array
\* of the dimensions of the frame given, with ori_dim and without.
C24_RescaleReversible ==
    fn = "rescaled" => scaled[2] = dim

\* ------------------------------------------------------------------ C25
\* C25: configR2 installs the penalty its docstring gives for the mode and
\* penaliz of the call; with mode "dist" and penaliz "L" that is the
\* distance between the mask and L, not the penalty of penaliz "X".
Documented(mode, pen) ==
    [mode |-> mode,
     form |-> IF pen \in {"Both", "B"} THEN "Both" ELSE pen]
C25_DocumentedPenalty ==
    (/\ call.op = "configR2" /\ raised = "none"
     /\ capitalize(call.pen) \in {"X", "L", "Both", "B"}) =>
        /\ regul2.mode = Documented(call.opt, capitalize(call.pen)).mode
        /\ regul2.form = Documented(call.opt, capitalize(call.pen)).form

\* ------------------------------------------------------------------ C29
\* C29: a call of configR2 that raises leaves self.mask, self.regul2 and
\* config[1] as they were.
ConfigR2Raised == call = NoCall /\ call'.op = "configR2" /\ raised' # "none"
C29_FailedConfigR2KeepsState ==
    [][ConfigR2Raised => UNCHANGED <<mask, regul2, config>>]_vars
C29_Witness ==
    /\ call.op = "configR2" /\ raised = "Exception" /\ call.msk = "ok"
    /\ call.opt = "dist"
    /\ mask = "1-Msk" /\ regul2.mode = "mask" /\ config[2].mode = "mask"

\* ------------------------------------------------------------------ C30
\* C30: after configR1 and configR2 calls that returned, config[0] is the R1
\* mode in force and last configured, and config[1] names the mode and
\* penaliz of the penalty held by self.regul2.
C30_LabelsNameInstalled ==
    (call.op \in {"configR1", "configR2"} /\ raised = "none") =>
        /\ config[1] = smooth
        /\ call.op = "configR1" => config[1] = call.opt
        /\ regul2 = Regul2Of(config[2].mode, config[2].penaliz,
                             config[2].inverted, NoLambda)

\* ------------------------------------------------------------------ C26
\* C26: when a call that was not interrupted returns, self.last_iter holds
\* the values of the trainable variables at termination.
C26_LastIterIsFinalIterate ==
    (pc = "done" /\ result.ending # InterruptEnding) => last_iter = deepcopy(Lk)

\* ------------------------------------------------------------------ C27
\* C27: while an activation index kactiv > 0 is in force, an optimizer step
\* taken at an iteration k < kactiv has Ractiv = 0.
C27_InactiveBeforeActivation ==
    [][(IsIteration /\ kactiv # 0 /\ k' < kactiv)
         => log'[Len(log) + 1].Ractiv = 0]_vars

\* ------------------------------------------------------------------ C28
\* C28: when a call returns, self.final_estim is the candidate captured in
\* this call or, without one, the last iterate of this call, and neither it
\* nor the (L, X) returned is a snapshot of an earlier call.
C28_NoCheckpointLeak ==
    pc = "done" =>
        /\ final_estim = (IF candidate # None THEN candidate ELSE last_iter)
        /\ final_estim.call # "earlier"
        /\ result.x.call # "earlier"

====
